---------------------------- MODULE Spec2Model ----------------------------
(***************************************************************************)
(* CarTag ESP32 BLE firmware (src/cartag/src/main.cpp).                    *)
(*                                                                         *)
(* The firmware is one Arduino loop() plus three callbacks that the BLE    *)
(* stack runs on its own task: onConnect, onDisconnect and onWrite.  The   *)
(* callbacks may run between any two statements of loop().  loop() is cut  *)
(* into steps named after the source line they start at; a step holds at   *)
(* most one access to a variable shared with a callback (deviceConnected,  *)
(* the characteristic's value).                                            *)
(*                                                                         *)
(* deviceConnected is a plain bool shared between tasks.  The compiler may *)
(* keep the value read at line 115 in a register and use it again at lines *)
(* 117, 120 and 129, or read memory again; after the calls of lines        *)
(* 122-124 it has to read again (line 125).  dcReg is that register and    *)
(* every re-use is a choice between dcReg and memory.                      *)
(***************************************************************************)
EXTENDS Integers, Sequences, FiniteSets, TLC

VARIABLES
    deviceConnected,     \* line 21
    oldDeviceConnected,  \* line 22
    batteryLevel,        \* line 25
    updateCount,         \* line 26
    lastUpdateTime,      \* line 27
    charValue,           \* value held by *pCharacteristic (lines 50, 96, 145)
    advertising,         \* whether the stack is advertising (lines 106, 123)
    now,                 \* what millis() returns
    pc,                  \* position of loop()
    dcReg,               \* deviceConnected as last read by loop()
    \* ---- observers: written by the steps, never read by them ----
    ev,                  \* the handler or step that ran last
    connects,            \* number of onConnect calls
    advRestarts,         \* number of pServer->startAdvertising() calls made by loop()
    tickStartDisc,       \* number of onDisconnect calls when this iteration began
    seenAt,              \* millis() when loop() first read the present connection, or -1
    reports,             \* number of notify() calls
    sent,                \* value pushed by the last notify()
    twinValue,           \* charValue in the run that gets the same events but no writes
    twinSent,            \* value pushed by the last notify() of that run
    hist,                \* batteryLevel after each of the last reports of this connection
    dcAtEnd,             \* deviceConnected when the previous iteration of loop() returned
    quiet,               \* no onConnect or onDisconnect ran since line 115 was last executed
    edge,                \* branch of lines 115-126 this iteration took: "none", "connect", "disconnect"
    connAt,              \* millis() at the last onConnect, or -1
    realNow,             \* milliseconds since boot, not wrapped
    realLast             \* realNow when lastUpdateTime was last assigned

vars == <<deviceConnected, oldDeviceConnected, batteryLevel, updateCount,
          lastUpdateTime, charValue, advertising, now, pc, dcReg, ev, connects,
          advRestarts, tickStartDisc, seenAt, reports, sent, twinValue, twinSent,
          hist, dcAtEnd, quiet, edge, connAt, realNow, realLast>>

progVars == <<deviceConnected, oldDeviceConnected, batteryLevel, updateCount,
              lastUpdateTime>>

(***************************************************************************)
(* Program constants                                                       *)
(***************************************************************************)
UPDATE_INTERVAL == 2000

SettleDelay == 500

LoopDelay == 10

DecayCadence == 3

FullBattery == 100

(***************************************************************************)
(* Bounds of the model                                                     *)
(***************************************************************************)
\* millis() and lastUpdateTime are unsigned long; the model's clock counts
\* modulo 2^ClockBits.
ClockBits == 19

\* Spec stops the clock here.
MaxTime == 8000

\* Spec delivers at most this many onConnect.
MaxConnects == 3

\* SpecRun stops after this many reports.
MaxReports == 306

ClockModulus == 2 ^ ClockBits

\* In Spec one pass of loop() takes a quarter of the interval: delay(10)
\* returns after at least 10 ms, and the loop task can be held for longer.
Quantum == UPDATE_INTERVAL \div 4

Stalls == {Quantum}

\* What a central writes: nothing, or some bytes.
Payloads == {"", "x"}

HelloValue == "Hello from CarTag!"

(***************************************************************************)
(* Pure functions                                                          *)
(***************************************************************************)
DigitChars == <<"0", "1", "2", "3", "4", "5", "6", "7", "8", "9">>

RECURSIVE Digits(_)
Digits(n) ==
    IF n < 10 THEN DigitChars[n + 1]
    ELSE Digits(n \div 10) \o DigitChars[(n % 10) + 1]

\* String(int)
StringOfInt(n) == IF n < 0 THEN "-" \o Digits(-n) ELSE Digits(n)

\* String(batteryLevel) + "%"
BatteryStr(level) == StringOfInt(level) \o "%"

\* The interval test with > for >=.
IntervalElapsed_strict(currentTime, last) ==
    (currentTime - last) % ClockModulus > UPDATE_INTERVAL

\* The interval test in signed arithmetic, without the wraparound.
IntervalElapsed_signed(currentTime, last) ==
    currentTime - last >= UPDATE_INTERVAL

\* currentTime - lastUpdateTime >= UPDATE_INTERVAL, in unsigned arithmetic
IntervalElapsed(currentTime, last) ==
    (currentTime - last) % ClockModulus >= UPDATE_INTERVAL

\* The decay test with > for >=.
Decays_late(count, level) == count + 1 > DecayCadence /\ level > 0

\* The decay test without its floor.
Decays_nofloor(count, level) == count + 1 >= DecayCadence

\* updateCount++; if (updateCount >= 3 && batteryLevel > 0) { batteryLevel--; updateCount = 0; }
Decays(count, level) == count + 1 >= DecayCadence /\ level > 0

NextCount(count, level) == IF Decays(count, level) THEN 0 ELSE count + 1

\* batteryLevel++ for batteryLevel--.
NextLevel_up(count, level) == IF Decays(count, level) THEN level + 1 ELSE level

\* Line 139 left out.
NextLevel_hold(count, level) == level

NextLevel(count, level) == IF Decays(count, level) THEN level - 1 ELSE level

\* The values loop() may use for deviceConnected where the compiler may
\* keep the earlier read.
DCReads == {dcReg, deviceConnected}

Disconnects == connects - (IF deviceConnected THEN 1 ELSE 0)

Seen(v) == IF v /\ seenAt = -1 THEN now ELSE seenAt

Last7(s) == IF Len(s) > 7 THEN SubSeq(s, Len(s) - 6, Len(s)) ELSE s

(***************************************************************************)
(* State after setup()                                                     *)
(***************************************************************************)
Init ==
    /\ deviceConnected = FALSE
    /\ oldDeviceConnected = FALSE
    /\ batteryLevel = FullBattery
    /\ updateCount = 0
    /\ lastUpdateTime = 0
    /\ charValue = HelloValue
    /\ advertising = TRUE
    /\ now = 0
    /\ pc = "L115"
    /\ dcReg = FALSE
    /\ ev = "setup"
    /\ connects = 0
    /\ advRestarts = 0
    /\ tickStartDisc = 0
    /\ seenAt = -1
    /\ reports = 0
    /\ sent = ""
    /\ twinValue = HelloValue
    /\ twinSent = ""
    /\ hist = <<FullBattery>>
    /\ dcAtEnd = FALSE
    /\ quiet = TRUE
    /\ edge = "none"
    /\ connAt = -1
    /\ realNow = 0
    /\ realLast = 0

(***************************************************************************)
(* Callbacks, run by the BLE stack                                         *)
(***************************************************************************)
\* A central can connect while the peripheral advertises and has no link;
\* the stack stops advertising when the link comes up.
onConnect ==
    /\ ~deviceConnected
    /\ advertising
    /\ deviceConnected' = TRUE
    /\ advertising' = FALSE
    /\ connects' = connects + 1
    /\ seenAt' = -1
    /\ hist' = <<batteryLevel>>
    /\ quiet' = FALSE
    /\ connAt' = now
    /\ UNCHANGED <<dcAtEnd, edge, realNow, realLast>>
    /\ ev' = "onConnect"
    /\ UNCHANGED <<oldDeviceConnected, batteryLevel, updateCount, lastUpdateTime,
                   charValue, now, pc, dcReg, advRestarts, tickStartDisc,
                   reports, sent, twinValue, twinSent>>

\* Some versions of the stack resume advertising by themselves when the
\* link drops, others leave it to the sketch.
onDisconnect ==
    /\ deviceConnected
    /\ deviceConnected' = FALSE
    /\ \E a \in {advertising, TRUE} : advertising' = a
    /\ quiet' = FALSE
    /\ UNCHANGED <<dcAtEnd, edge, connAt, realNow, realLast>>
    /\ ev' = "onDisconnect"
    /\ UNCHANGED <<oldDeviceConnected, batteryLevel, updateCount, lastUpdateTime,
                   charValue, now, pc, dcReg, connects, advRestarts,
                   tickStartDisc, seenAt, reports, sent, twinValue, twinSent,
                   hist>>

\* onWrite taking every write, the empty one too, for a command that restarts
\* the battery simulation.
onWrite_command(value) ==
    /\ deviceConnected
    /\ charValue' = value
    /\ batteryLevel' = FullBattery
    /\ updateCount' = 0
    /\ UNCHANGED <<dcAtEnd, quiet, edge, connAt, realNow, realLast>>
    /\ ev' = "onWrite"
    /\ UNCHANGED <<deviceConnected, oldDeviceConnected, lastUpdateTime,
                   advertising, now, pc, dcReg, connects, advRestarts,
                   tickStartDisc, seenAt, reports, sent, twinValue, twinSent,
                   hist>>

\* The stack stores the written bytes in the characteristic and calls
\* onWrite, which reads them back (line 50) and prints them.
onWrite(value) ==
    /\ deviceConnected
    /\ charValue' = value
    /\ UNCHANGED <<dcAtEnd, quiet, edge, connAt, realNow, realLast>>
    /\ ev' = "onWrite"
    /\ UNCHANGED <<deviceConnected, oldDeviceConnected, batteryLevel, updateCount,
                   lastUpdateTime, advertising, now, pc, dcReg, connects,
                   advRestarts, tickStartDisc, seenAt, reports, sent, twinValue,
                   twinSent, hist>>

(***************************************************************************)
(* loop()                                                                  *)
(***************************************************************************)
\* if (deviceConnected && !oldDeviceConnected)
loop115 ==
    /\ pc = "L115"
    /\ dcReg' = deviceConnected
    /\ pc' = IF deviceConnected /\ ~oldDeviceConnected THEN "L117" ELSE "L120"
    /\ tickStartDisc' = Disconnects
    /\ seenAt' = Seen(deviceConnected)
    /\ quiet' = TRUE
    /\ edge' = "none"
    /\ UNCHANGED <<dcAtEnd, connAt, realNow, realLast>>
    /\ ev' = "loop115"
    /\ UNCHANGED <<deviceConnected, oldDeviceConnected, batteryLevel, updateCount,
                   lastUpdateTime, charValue, advertising, now, connects,
                   advRestarts, reports, sent, twinValue, twinSent, hist>>

\* Line 117 without its assignment.
loop117_skip ==
    /\ pc = "L117"
    /\ \E v \in DCReads :
          /\ oldDeviceConnected' = oldDeviceConnected
          /\ dcReg' = v
    /\ pc' = "L120"
    /\ edge' = "connect"
    /\ UNCHANGED <<dcAtEnd, quiet, connAt, realNow, realLast>>
    /\ ev' = "loop117"
    /\ UNCHANGED <<deviceConnected, batteryLevel, updateCount, lastUpdateTime,
                   charValue, advertising, now, connects, advRestarts,
                   tickStartDisc, seenAt, reports, sent, twinValue, twinSent,
                   hist>>

\* oldDeviceConnected = deviceConnected;
loop117 ==
    /\ pc = "L117"
    /\ \E v \in DCReads :
          /\ oldDeviceConnected' = v
          /\ dcReg' = v
    /\ pc' = "L120"
    /\ edge' = "connect"
    /\ UNCHANGED <<dcAtEnd, quiet, connAt, realNow, realLast>>
    /\ ev' = "loop117"
    /\ UNCHANGED <<deviceConnected, batteryLevel, updateCount, lastUpdateTime,
                   charValue, advertising, now, connects, advRestarts,
                   tickStartDisc, seenAt, reports, sent, twinValue, twinSent,
                   hist>>

\* if (!deviceConnected && oldDeviceConnected)
loop120 ==
    /\ pc = "L120"
    /\ \E v \in DCReads :
          /\ dcReg' = v
          /\ pc' = IF ~v /\ oldDeviceConnected THEN "L122" ELSE "L129"
          /\ seenAt' = Seen(v)
    /\ UNCHANGED <<dcAtEnd, quiet, edge, connAt, realNow, realLast>>
    /\ ev' = "loop120"
    /\ UNCHANGED <<deviceConnected, oldDeviceConnected, batteryLevel, updateCount,
                   lastUpdateTime, charValue, advertising, now, connects,
                   advRestarts, tickStartDisc, reports, sent, twinValue,
                   twinSent, hist>>

\* delay(500);
loop122 ==
    /\ pc = "L122"
    /\ now' = (now + SettleDelay) % ClockModulus
    /\ pc' = "L123"
    /\ edge' = "disconnect"
    /\ realNow' = realNow + SettleDelay
    /\ UNCHANGED <<dcAtEnd, quiet, connAt, realLast>>
    /\ ev' = "loop122"
    /\ UNCHANGED <<deviceConnected, oldDeviceConnected, batteryLevel, updateCount,
                   lastUpdateTime, charValue, advertising, dcReg, connects,
                   advRestarts, tickStartDisc, seenAt, reports, sent, twinValue,
                   twinSent, hist>>

\* pServer->startAdvertising();
loop123 ==
    /\ pc = "L123"
    /\ advertising' = TRUE
    /\ advRestarts' = advRestarts + 1
    /\ pc' = "L125"
    /\ UNCHANGED <<dcAtEnd, quiet, edge, connAt, realNow, realLast>>
    /\ ev' = "loop123"
    /\ UNCHANGED <<deviceConnected, oldDeviceConnected, batteryLevel, updateCount,
                   lastUpdateTime, charValue, now, dcReg, connects,
                   tickStartDisc, seenAt, reports, sent, twinValue, twinSent,
                   hist>>

\* Line 125 with the assignment the wrong way round.
loop125_swapped ==
    /\ pc = "L125"
    /\ deviceConnected' = oldDeviceConnected
    /\ dcReg' = oldDeviceConnected
    /\ pc' = "L129"
    /\ seenAt' = Seen(oldDeviceConnected)
    /\ UNCHANGED <<dcAtEnd, quiet, edge, connAt, realNow, realLast>>
    /\ ev' = "loop125"
    /\ UNCHANGED <<oldDeviceConnected, batteryLevel, updateCount, lastUpdateTime,
                   charValue, advertising, now, connects, advRestarts,
                   tickStartDisc, reports, sent, twinValue, twinSent, hist>>

\* oldDeviceConnected = deviceConnected;
loop125 ==
    /\ pc = "L125"
    /\ oldDeviceConnected' = deviceConnected
    /\ dcReg' = deviceConnected
    /\ pc' = "L129"
    /\ seenAt' = Seen(deviceConnected)
    /\ UNCHANGED <<dcAtEnd, quiet, edge, connAt, realNow, realLast>>
    /\ ev' = "loop125"
    /\ UNCHANGED <<deviceConnected, batteryLevel, updateCount, lastUpdateTime,
                   charValue, advertising, now, connects, advRestarts,
                   tickStartDisc, reports, sent, twinValue, twinSent, hist>>

\* Line 129 without its test.
loop129_always ==
    /\ pc = "L129"
    /\ \E v \in DCReads :
          /\ dcReg' = v
          /\ pc' = "L130"
          /\ seenAt' = Seen(v)
    /\ UNCHANGED <<dcAtEnd, quiet, edge, connAt, realNow, realLast>>
    /\ ev' = "loop129"
    /\ UNCHANGED <<deviceConnected, oldDeviceConnected, batteryLevel, updateCount,
                   lastUpdateTime, charValue, advertising, now, connects,
                   advRestarts, tickStartDisc, reports, sent, twinValue,
                   twinSent, hist>>

\* if (deviceConnected)
loop129 ==
    /\ pc = "L129"
    /\ \E v \in DCReads :
          /\ dcReg' = v
          /\ pc' = IF v THEN "L130" ELSE "L153"
          /\ seenAt' = Seen(v)
    /\ UNCHANGED <<dcAtEnd, quiet, edge, connAt, realNow, realLast>>
    /\ ev' = "loop129"
    /\ UNCHANGED <<deviceConnected, oldDeviceConnected, batteryLevel, updateCount,
                   lastUpdateTime, charValue, advertising, now, connects,
                   advRestarts, tickStartDisc, reports, sent, twinValue,
                   twinSent, hist>>

\* Lines 130-145: millis(), the interval test, the decay and setValue().
loop130 ==
    /\ pc = "L130"
    /\ IF IntervalElapsed(now, lastUpdateTime)
       THEN /\ lastUpdateTime' = now
            /\ updateCount' = NextCount(updateCount, batteryLevel)
            /\ batteryLevel' = NextLevel(updateCount, batteryLevel)
            /\ charValue' = BatteryStr(batteryLevel')
            /\ twinValue' = BatteryStr(batteryLevel')
            /\ hist' = Last7(Append(hist, batteryLevel'))
            /\ pc' = "L146"
       ELSE /\ pc' = "L153"
            /\ UNCHANGED <<lastUpdateTime, updateCount, batteryLevel, charValue,
                           twinValue, hist>>
    /\ realLast' = IF IntervalElapsed(now, lastUpdateTime) THEN realNow ELSE realLast
    /\ UNCHANGED <<dcAtEnd, quiet, edge, connAt, realNow>>
    /\ ev' = "loop130"
    /\ UNCHANGED <<deviceConnected, oldDeviceConnected, advertising, now, dcReg,
                   connects, advRestarts, tickStartDisc, seenAt, reports, sent,
                   twinSent>>

\* pCharacteristic->notify();
loop146 ==
    /\ pc = "L146"
    /\ sent' = charValue
    /\ twinSent' = twinValue
    /\ reports' = reports + 1
    /\ pc' = "L153"
    /\ UNCHANGED <<dcAtEnd, quiet, edge, connAt, realNow, realLast>>
    /\ ev' = "loop146"
    /\ UNCHANGED <<deviceConnected, oldDeviceConnected, batteryLevel, updateCount,
                   lastUpdateTime, charValue, advertising, now, dcReg, connects,
                   advRestarts, tickStartDisc, seenAt, twinValue, hist>>

\* delay(10); and the return to the top of loop().  The call takes d ms.
loop153(d) ==
    /\ pc = "L153"
    /\ d >= LoopDelay
    /\ now' = (now + d) % ClockModulus
    /\ pc' = "L115"
    /\ dcAtEnd' = deviceConnected
    /\ realNow' = realNow + d
    /\ UNCHANGED <<quiet, edge, connAt, realLast>>
    /\ ev' = "loop153"
    /\ UNCHANGED <<deviceConnected, oldDeviceConnected, batteryLevel, updateCount,
                   lastUpdateTime, charValue, advertising, dcReg, connects,
                   advRestarts, tickStartDisc, seenAt, reports, sent, twinValue,
                   twinSent, hist>>

(***************************************************************************)
(* Spec: every interleaving of the callbacks with loop(), up to MaxTime.   *)
(***************************************************************************)
Next ==
    \/ connects < MaxConnects /\ onConnect
    \/ onDisconnect
    \/ \E value \in Payloads : onWrite(value)
    \/ loop115
    \/ loop117
    \/ loop120
    \/ now + SettleDelay <= MaxTime /\ loop122
    \/ loop123
    \/ loop125
    \/ loop129
    \/ loop130
    \/ loop146
    \/ \E d \in Stalls : now + d <= MaxTime /\ loop153(d)

Spec == Init /\ [][Next]_vars

(***************************************************************************)
(* SpecRun: a central connects during the first pass of loop() and stays,  *)
(* nothing is written, and every pass of loop() takes exactly 10 ms.       *)
(***************************************************************************)
NextRun ==
    \/ now = 0 /\ connects = 0 /\ onConnect
    \/ loop115
    \/ loop117
    \/ loop120
    \/ loop129
    \/ loop130
    \/ loop146
    \/ deviceConnected /\ reports < MaxReports /\ loop153(LoopDelay)

SpecRun == Init /\ [][NextRun]_vars

\* The Arduino core calls loop() again and again for ever, and delay()
\* returns: a step of the run that can be taken is taken.
SpecRunFair == SpecRun /\ WF_vars(NextRun)

(***************************************************************************)
(* Claims                                                                  *)
(***************************************************************************)
Max0(x) == IF x < 0 THEN 0 ELSE x

\* C1 (as claimed): every call of pCharacteristic->notify() is made in a
\* state where deviceConnected is true, whatever callback ran since the test
\* of line 129.
C1_NotifyOnlyWhileConnected == pc = "L146" => deviceConnected

\* C2 (as claimed): after a reconnection no report is emitted earlier than
\* UPDATE_INTERVAL after the pass of loop() that first saw the new
\* connection, however long the device was disconnected.  At line 146
\* lastUpdateTime is the time of the report being emitted.
C2_TimerRestartsOnReconnect ==
    (pc = "L146" /\ connects >= 2 /\ seenAt >= 0)
        => lastUpdateTime - seenAt >= UPDATE_INTERVAL

\* C3 (as claimed): loop() never calls startAdvertising() more often than
\* onDisconnect ran, and when a pass of loop() reaches its end it has called
\* startAdvertising() once for every onDisconnect that ran before the pass
\* began.
C3_OneRestartPerDisconnect ==
    /\ advRestarts <= Disconnects
    /\ pc = "L153" => advRestarts >= tickStartDisc

\* C4: no step raises batteryLevel, and batteryLevel stays in [0, 100].
C4_BatteryMonotoneBounded ==
    /\ [][batteryLevel' <= batteryLevel]_vars
    /\ [](batteryLevel >= 0 /\ batteryLevel <= FullBattery)

\* C4 witness: a report has just lowered batteryLevel, in the second
\* connection or a later one.
C4_Witness ==
    /\ ev = "loop130"
    /\ pc = "L146"
    /\ batteryLevel = FullBattery - 1
    /\ connects >= 2
    /\ charValue = "99%"

\* C5 (as claimed): after 6 consecutive on-time reports of one connection
\* batteryLevel is exactly 2 less than before the first of them.
C5_SixReportsDropTwo == Len(hist) = 7 => hist[7] = hist[1] - 2

\* C5 (amended): after 6 consecutive on-time reports of one connection
\* batteryLevel is 2 less than before the first of them when it was at least
\* 2 then, and 0 otherwise.
C5_SixReportsDropTwoOrFloor == Len(hist) = 7 => hist[7] = Max0(hist[1] - 2)

\* C5 witness: six reports were emitted from a level of at least 2.
C5_Witness == Len(hist) = 7 /\ hist[1] >= 2 /\ reports >= 6 /\ ev = "loop146"

\* C6: connected at t = 0 and kept connected, the k-th notify() is made in
\* the pass of loop() at t = 2000 * k and pushes max(0, 100 - k \div 3)
\* followed by "%"; the first six push 100% 100% 99% 99% 99% 98%.
C6_FirstSix == <<"100%", "100%", "99%", "99%", "99%", "98%">>

C6_Scenario ==
    (ev = "loop146") =>
        /\ lastUpdateTime = (UPDATE_INTERVAL * reports) % ClockModulus
        /\ now = lastUpdateTime
        /\ sent = BatteryStr(Max0(FullBattery - reports \div DecayCadence))
        /\ reports <= 6 => sent = C6_FirstSix[reports]

\* C6 witness: the sixth report, 98%, pushed at t = 12000.
C6_Witness == ev = "loop146" /\ reports = 6 /\ sent = "98%" /\ now = 12000

\* C7 (as claimed): the values pushed by notify() do not depend on the
\* writes.  onWrite changes charValue and nothing else, so the run that sees
\* the same clock and the same connects and disconnects at the same places
\* but no write differs from this one in the characteristic's value alone:
\* twinValue is that value and twinSent what its notify() pushes.  The claim
\* is that both runs push the same values.
C7_ReportsIgnoreWrites == sent = twinSent

\* C8: an onWrite with an empty payload leaves batteryLevel, updateCount,
\* lastUpdateTime, deviceConnected and oldDeviceConnected as they were.
C8_EmptyWriteNoOp ==
    [][(ev' = "onWrite" /\ Len(charValue') = 0) => UNCHANGED progVars]_vars

\* C8 witness: an empty write was delivered between setValue() and notify(),
\* after the battery simulation has moved.
C8_Witness ==
    /\ ev = "onWrite"
    /\ charValue = ""
    /\ pc = "L146"
    /\ updateCount > 0

\* C9: onConnect sets deviceConnected, onDisconnect clears it, and no step
\* of loop() and no write changes it.
C9_ConnectedOnlyByCallbacks ==
    [][/\ ev' = "onConnect" => deviceConnected'
       /\ ev' = "onDisconnect" => ~deviceConnected'
       /\ ev' \notin {"onConnect", "onDisconnect"}
             => deviceConnected' = deviceConnected]_vars

\* C9 witness: loop() has handled a disconnect edge up to line 125 and
\* deviceConnected is still false.
C9_Witness ==
    /\ ev = "loop125"
    /\ advRestarts >= 1
    /\ ~deviceConnected
    /\ ~oldDeviceConnected

\* C10: batteryLevel never goes below 0, and with batteryLevel at 0 a pass
\* of loop() that finds the interval elapsed sets lastUpdateTime to the
\* current time, hands "0%" to setValue() and calls notify(), which pushes it.
C10_FloorKeepsReporting ==
    /\ [](batteryLevel >= 0)
    /\ [][(/\ pc = "L130"
           /\ pc' # "L130"
           /\ batteryLevel = 0
           /\ (now - lastUpdateTime) % ClockModulus >= UPDATE_INTERVAL)
              => /\ lastUpdateTime' = now
                 /\ batteryLevel' = 0
                 /\ charValue' = "0%"
                 /\ pc' = "L146"]_vars
    /\ [][(pc = "L146" /\ pc' # "L146" /\ batteryLevel = 0)
              => sent' = "0%" /\ reports' = reports + 1]_vars

\* C10 witness: a report pushed at the floor, after the report that reached it.
C10_Witness ==
    /\ ev = "loop146"
    /\ batteryLevel = 0
    /\ sent = "0%"
    /\ reports > DecayCadence * FullBattery + 1
    /\ lastUpdateTime = now

\* C11 (as claimed): updateCount stays in [0, 3) in every reachable state,
\* those with batteryLevel = 0 included: a report that brings it to 3 resets
\* it to 0.
C11_CountBelowCadence == updateCount >= 0 /\ updateCount < DecayCadence

\* Positions of loop() outside the edge detection of lines 115-126: the start
\* of an iteration and everything from line 129 on.
AfterEdges == {"L115", "L129", "L130", "L146", "L153"}

C13_OneCategoryPerTick == ev = "loop146" => edge = "none"

\* C14 (as claimed): a report is emitted only when UPDATE_INTERVAL has
\* elapsed since the last onConnect, the first connection after boot
\* included, at whatever uptime it comes.
C14_WaitsIntervalAfterConnect ==
    ev = "loop146" => (now - connAt) % ClockModulus >= UPDATE_INTERVAL

\* C15 (as claimed): lastUpdateTime changes only in the step that emits a
\* report, which sets it to millis(); an iteration emits a report if and only
\* if deviceConnected is true and millis() - lastUpdateTime >= 2000; each
\* emission is one notify(); and a report comes at least UPDATE_INTERVAL
\* after the one before it.
C15_TimerGatesReports ==
    [][/\ lastUpdateTime' # lastUpdateTime => pc = "L130" /\ pc' = "L146"
       /\ (pc = "L130" /\ pc' = "L146") =>
              /\ deviceConnected
              /\ IntervalElapsed(now, lastUpdateTime)
              /\ lastUpdateTime' = now
              /\ realNow - realLast >= UPDATE_INTERVAL
       /\ (pc \in {"L129", "L130"} /\ pc' = "L153") =>
              ~(deviceConnected /\ IntervalElapsed(now, lastUpdateTime))
       /\ reports' # reports => pc = "L146" /\ reports' = reports + 1]_vars

\* C16: in an iteration of loop() during which deviceConnected is false (it
\* is false and no onConnect or onDisconnect ran since the iteration began)
\* no step changes batteryLevel, updateCount or lastUpdateTime, sets the
\* characteristic's value or reaches notify(), whatever millis() returns.
C16_NoOpWhileDisconnected ==
    [][(quiet' /\ ~deviceConnected /\ pc' # pc) =>
           /\ UNCHANGED <<batteryLevel, updateCount, lastUpdateTime, charValue,
                          sent, reports>>
           /\ pc' # "L146"]_vars

\* After a connection that reported, an iteration ran disconnected from start
\* to line 129 while more than UPDATE_INTERVAL had passed since the last
\* report.
C16_Witness ==
    /\ ev = "loop129"
    /\ pc = "L153"
    /\ quiet
    /\ ~deviceConnected
    /\ reports >= 1
    /\ IntervalElapsed(now, lastUpdateTime)

\* The link is down, the stack does not advertise, oldDeviceConnected is
\* false and loop() is not inside the edge handling of lines 117-125.
Dark ==
    /\ ~deviceConnected
    /\ ~advertising
    /\ ~oldDeviceConnected
    /\ pc \notin {"L117", "L122", "L123", "L125"}

\* From a Dark state every step leads to a Dark state and none calls
\* startAdvertising(): no central can connect, and loop() sees no edge.
DarkStaysDark == [][Dark => (Dark' /\ advRestarts' = advRestarts)]_vars

\* C17 (as claimed): whenever the link is down and the stack is not
\* advertising, a call of startAdvertising() is still to come; since no call
\* comes after a Dark state (DarkStaysDark), no Dark state is reached.
C17_RestartStillAhead == ~Dark

\* C18 (as claimed): when loop() calls pServer->startAdvertising() (line 123)
\* no central is connected: deviceConnected is false at the call, also when
\* onConnect ran during the delay of line 122.
C18_RestartOnlyWhenDown == ev = "loop123" => ~deviceConnected

\* C19: while connected with iterations 10 ms apart, the interval test of
\* line 133 succeeds exactly when UPDATE_INTERVAL milliseconds have really
\* passed since the previous report, and the report comes at the first
\* iteration for which that is so, also when millis() wrapped round since the
\* previous report.
C19_WrapKeepsInterval ==
    [][(pc = "L130" /\ pc' # pc) =>
           /\ pc' = "L146" <=> realNow - realLast >= UPDATE_INTERVAL
           /\ realNow - realLast < UPDATE_INTERVAL + LoopDelay]_vars

\* The first report after millis() wrapped round: the previous one was
\* emitted before the wrap.
C19_Witness ==
    /\ ev = "loop146"
    /\ realNow >= ClockModulus
    /\ now = realNow - ClockModulus
    /\ lastUpdateTime = now
    /\ lastUpdateTime < UPDATE_INTERVAL

\* C20: when the device stays connected and loop() keeps being called,
\* reports keep being emitted (every number of reports up to the bound of the
\* run is reached), batteryLevel reaches 0, and from then on it is 0.
C20_DrainsToZeroAndStays ==
    /\ <>(reports = MaxReports)
    /\ <>(batteryLevel = 0)
    /\ [](batteryLevel = 0 => [](batteryLevel = 0))

\* A report emitted with batteryLevel 0 after the one that brought it to 0.
C20_Witness ==
    /\ ev = "loop146"
    /\ batteryLevel = 0
    /\ sent = "0%"
    /\ reports = MaxReports

=============================================================================
